---- MODULE Spec2Model ----
(***************************************************************************)
(* Model of ApiService.request (src/ApiService.js): a request thunk is     *)
(* invoked, its result validated and transformed, and a failure is either  *)
(* retried after a fixed delay or wrapped into an enhanced Error.          *)
(*                                                                         *)
(* One call of request() is a small asynchronous process.  Its steps are   *)
(* the pieces of tryRequest that run without yielding:                     *)
(*   Request       request() is called: attempts = 0, tryRequest() runs up *)
(*                 to `await requestFn()`                                  *)
(*   ThunkSettles  the promise of requestFn() settles: the rest of the try *)
(*                 block runs, and the catch block when something threw    *)
(*   AdvanceTime   the clock moves to the next timer deadline              *)
(*   TimerFires    the setTimeout of the retry branch fires: tryRequest()  *)
(*                 is called again and runs up to `await requestFn()`      *)
(*                                                                         *)
(* HttpClient.get (src/HttpClient.js and the second definition of the      *)
(* class in src/unnamed/part_000) is modelled by two steps:                *)
(*   HttpGet       get() builds the URL and the options and calls fetch()  *)
(*   FetchSettles  the promise of fetch() settles: the response is         *)
(*                 classified and decoded                                  *)
(***************************************************************************)
EXTENDS Integers, Sequences, FiniteSets, TLC

VARIABLES
  callSites,      \* the calls of request() the client program makes
  options,        \* options[c]: the second argument of call c, as passed
  requestFn,      \* requestFn[c]: the thunk passed to call c
  pc,             \* pc[c]: position of call c
  attempts,       \* attempts[c]: the local counter of ApiService.js:13
  timer,          \* timer[c]: deadline of the pending setTimeout, or NoTimer
  now,            \* the clock, in ms
  result,         \* result[c]: the promise request() returned
  invocations,    \* invocations[c]: how often requestFn was invoked
  thunkFailures,  \* thunkFailures[c]: how many of these invocations threw
  waits,          \* waits[c]: how many retry delays have elapsed
  lastThunk,      \* lastThunk[c]: what the latest invocation settled with
  startedAt,      \* startedAt[c]: the clock when request() was called
  settledAt,      \* settledAt[c]: the clock when result[c] settled
  script,         \* script[c]: what a scripted thunk settles with, per invocation
  http            \* the HttpClient and its call of get()

vars == <<callSites, options, requestFn, pc, attempts, timer, now, result,
          invocations, thunkFailures, waits, lastThunk, startedAt, settledAt,
          script, http>>

----------------------------------------------------------------------------
(* Bounds of the model *)

MaxRetries == 2
MaxDelay == 2

Calls == {1, 2}

----------------------------------------------------------------------------
(* JavaScript values.  A value is a record [t, a]: t is its type, a the    *)
(* number it is or (for an object) the number in its field `a`.            *)

Undefined == [t |-> "undefined", a |-> 0]
Null == [t |-> "null", a |-> 0]
Obj(n) == [t |-> "object", a |-> n]
Num(n) == [t |-> "number", a |-> n]
\* {status: s}, a body without a field `a`; its a is the status.
StatusObj(s) == [t |-> "object with status", a |-> s]

\* The bodies a thunk can resolve with: {a: 1}, {a: 2} and null.
Responses == {Obj(1), Obj(2), Null}

\* Reading a property of null or undefined throws a TypeError.
IsNullish(v) == v.t \in {"null", "undefined"}

----------------------------------------------------------------------------
(* Thrown values.  [t, status, message]: status = NoStatus when the value  *)
(* has no status property, message = "" when it has no message.            *)

NoStatus == -1

NoThrow == [t |-> "none", status |-> NoStatus, message |-> ""]
ThrownNull == [t |-> "null", status |-> NoStatus, message |-> ""]
ThrownUndefined == [t |-> "undefined", status |-> NoStatus, message |-> ""]
NetworkError == [t |-> "Error", status |-> NoStatus, message |-> "Failed to fetch"]
TypeError == [t |-> "TypeError", status |-> NoStatus, message |-> "Cannot read properties"]

\* HttpClient.request throws a plain object {status, statusText, url}.
HttpFailure(s) == [t |-> "object", status |-> s, message |-> ""]

\* The Error thrown when validateStatus returns a falsy value.
\* Mutant: the validation Error carries a status.
ValidationErrorWithStatus ==
  [t |-> "Error", status |-> 404, message |-> "Custom validation failed."]

ValidationError == [t |-> "Error", status |-> NoStatus, message |-> "Custom validation failed."]

MappedStatuses == {400, 401, 403, 404, 429, 500}
Statuses == MappedStatuses \cup {0, 418}

Failures == {HttpFailure(s) : s \in Statuses}
              \cup {NetworkError, ThrownNull, ThrownUndefined}

\* What one invocation of a thunk settles with.
Resolved(v) == [ok |-> TRUE, res |-> v, err |-> NoThrow]
Rejected(e) == [ok |-> FALSE, res |-> Undefined, err |-> e]
NotSettled == [ok |-> FALSE, res |-> Undefined, err |-> NoThrow]

Outcomes == {Resolved(v) : v \in Responses} \cup {Rejected(e) : e \in Failures}

----------------------------------------------------------------------------
(* The options of a call and their defaults (ApiService.js:6-12).          *)

\* An option the caller did not pass (undefined in the options object).
Omitted == -1
OmittedMessage == "<undefined>"

DefaultRetries == 1
DefaultRetryDelay == 1000
DefaultErrorMessage == "API request failed."

\* The errorMessage getWeatherData passes (ApiService.js:60), in English.
WeatherErrorMessage == "Failed to fetch weather data."

RetriesArgs == (0..MaxRetries) \cup {Omitted}
RetryDelayArgs == (0..MaxDelay) \cup {Omitted}
ErrorMessageArgs == {OmittedMessage, WeatherErrorMessage}
\* "omitted" is d => d; "getA" is r => r.a
TransformArgs == {"omitted", "getA"}
\* "omitted" is null; "rejectAll" is r => false; "acceptAll" is r => true;
\* "aIs1" is r => r.a === 1
ValidateArgs == {"omitted", "rejectAll", "acceptAll", "aIs1"}

Options == [retries : RetriesArgs, retryDelay : RetryDelayArgs,
            errorMessage : ErrorMessageArgs,
            transformResponse : TransformArgs, validateStatus : ValidateArgs]

NoOptions == [retries |-> Omitted, retryDelay |-> Omitted,
              errorMessage |-> OmittedMessage,
              transformResponse |-> "omitted", validateStatus |-> "omitted"]

retries(o) == IF o.retries = Omitted THEN DefaultRetries ELSE o.retries
retryDelay(o) == IF o.retryDelay = Omitted THEN DefaultRetryDelay ELSE o.retryDelay
errorMessage(o) ==
  IF o.errorMessage = OmittedMessage THEN DefaultErrorMessage ELSE o.errorMessage

----------------------------------------------------------------------------
(* The try block of tryRequest (ApiService.js:16-23), after requestFn()    *)
(* has settled.                                                            *)

\* validateStatus(res): "true", "false", or "throws" when reading res.a throws
validateStatus(v, res) ==
  CASE v = "rejectAll" -> "false"
    [] v = "acceptAll" -> "true"
    [] v = "aIs1" -> IF IsNullish(res) THEN "throws"
                     ELSE IF res.t = "object" /\ res.a = 1 THEN "true" ELSE "false"
    [] OTHER -> "true"

Returns(v) == [threw |-> FALSE, value |-> v, err |-> NoThrow]
Throws(e) == [threw |-> TRUE, value |-> Undefined, err |-> e]

\* Mutant: the transform is not applied, the raw result is returned.
transformResponseNotApplied(tr, res) == Returns(res)

\* transformResponse(res)
transformResponse(tr, res) ==
  IF tr = "getA"
  THEN IF IsNullish(res) THEN Throws(TypeError)
       ELSE IF res.t = "object" THEN Returns(Num(res.a)) ELSE Returns(Undefined)
  ELSE Returns(res)

\* Mutant: the try block returns the result without transforming it.
TryBlockReturnsRaw(o, s) ==
  IF ~s.ok THEN Throws(s.err)
  ELSE IF o.validateStatus # "omitted" /\ validateStatus(o.validateStatus, s.res) = "throws"
       THEN Throws(TypeError)
  ELSE IF o.validateStatus # "omitted" /\ validateStatus(o.validateStatus, s.res) = "false"
       THEN Throws(ValidationError)
  ELSE Returns(s.res)

\* Mutant: the verdict of validateStatus is ignored.
TryBlockIgnoresValidator(o, s) ==
  IF ~s.ok THEN Throws(s.err)
  ELSE IF o.validateStatus # "omitted" /\ validateStatus(o.validateStatus, s.res) = "throws"
       THEN Throws(TypeError)
  ELSE transformResponse(o.transformResponse, s.res)

\* What the try block does with the settled invocation s: the value it
\* returns, or the value that reaches the catch block.
TryBlock(o, s) ==
  IF ~s.ok THEN Throws(s.err)
  ELSE IF o.validateStatus # "omitted" /\ validateStatus(o.validateStatus, s.res) = "throws"
       THEN Throws(TypeError)
  ELSE IF o.validateStatus # "omitted" /\ validateStatus(o.validateStatus, s.res) = "false"
       THEN Throws(ValidationError)
  ELSE transformResponse(o.transformResponse, s.res)

----------------------------------------------------------------------------
(* The catch block of tryRequest (ApiService.js:24-38).                    *)

\* Mutant: one retry too many.
ShouldRetryOffByOne(a, r) == a <= r

ShouldRetry(a, r) == a < r

\* The table of getErrorMessageByStatus, in English.
messages ==
  [s \in MappedStatuses |->
     CASE s = 400 -> "Bad request."
       [] s = 401 -> "Authentication required."
       [] s = 403 -> "Access denied."
       [] s = 404 -> "Data not found."
       [] s = 429 -> "Too many requests. Try again later."
       [] s = 500 -> "A server error occurred."]

\* Mutant: the entry for 429 is missing from the table.
getErrorMessageByStatusWithout429(status, fallback) ==
  IF status \in DOMAIN messages /\ status # 429 THEN messages[status] ELSE fallback

getErrorMessageByStatus(status, fallback) ==
  IF status \in DOMAIN messages THEN messages[status] ELSE fallback

\* `err.status ? ... : ...`: undefined and 0 are falsy
StatusIsTruthy(s) == s # NoStatus /\ s # 0

ErrorMessageFor(err, fallback) ==
  IF StatusIsTruthy(err.status)
  THEN getErrorMessageByStatus(err.status, fallback)
  ELSE fallback

\* The reasons request() can reject with: [t, message, hasOriginalError, originalError]
EnhancedError(message, err) ==
  [t |-> "Error", message |-> message, hasOriginalError |-> TRUE, originalError |-> err]

Escaped(e) ==
  [t |-> e.t, message |-> e.message, hasOriginalError |-> FALSE, originalError |-> NoThrow]

NoReason == Escaped(NoThrow)

\* Lines 31-37: reading err.status of null or undefined throws a TypeError out
\* of the catch block; otherwise the enhanced Error is thrown.
FinalError(err, fallback) ==
  IF err.t \in {"null", "undefined"}
  THEN Escaped(TypeError)
  ELSE EnhancedError(ErrorMessageFor(err, fallback), err)

----------------------------------------------------------------------------
(* The promise request() returns. *)

Pending == [state |-> "pending", value |-> Undefined, reason |-> NoReason]
Fulfilled(v) == [state |-> "fulfilled", value |-> v, reason |-> NoReason]
RejectedWith(r) == [state |-> "rejected", value |-> Undefined, reason |-> r]

----------------------------------------------------------------------------
(* tryRequest (ApiService.js:15-39) as a function: what a call that runs   *)
(* on its own comes to when invocation number i of the thunk settles with  *)
(* scr[i] (with the last entry of scr from then on).                       *)

RECURSIVE tryRequest(_, _, _, _)
tryRequest(o, scr, a, i) ==
  LET s == scr[IF i < Len(scr) THEN i ELSE Len(scr)]
  IN IF ~TryBlock(o, s).threw
     THEN [result |-> Fulfilled(TryBlock(o, s).value), invocations |-> i, attempts |-> a]
     ELSE IF ShouldRetry(a, retries(o))
          THEN tryRequest(o, scr, a + 1, i + 1)
          ELSE [result |-> RejectedWith(FinalError(TryBlock(o, s).err, errorMessage(o))),
                invocations |-> i, attempts |-> a]

----------------------------------------------------------------------------
(* Timers (setTimeout, ApiService.js:27). *)

NoTimer == -1

\* Mutant: the delay is dropped, the timer is due at once.
SetTimeoutWithoutDelay(t, delay) == t

\* Mutant: the timer is never armed, so the promise of the delay never resolves.
SetTimeoutNeverArmed(t, delay) == NoTimer

SetTimeout(t, delay) == t + delay
TimerDue(deadline, t) == deadline <= t

PendingTimers == {c \in Calls : timer[c] # NoTimer}

----------------------------------------------------------------------------
(* HttpClient: strings.  A string is the sequence of its characters, so    *)
(* that startsWith, concatenation and URL encoding are what they are in    *)
(* the code.                                                               *)

StartsWith(str, prefix) ==
  /\ Len(str) >= Len(prefix)
  /\ SubSeq(str, 1, Len(prefix)) = prefix

\* '' (the default) and 'http://b/'
BaseUrls == { << >>, <<"h", "t", "t", "p", ":", "/", "/", "b", "/">> }

\* 'http://h', 'https://h', 'ftp://h', 'httpd', '/a' and 'a'
Endpoints ==
  { <<"h", "t", "t", "p", ":", "/", "/", "h">>,
    <<"h", "t", "t", "p", "s", ":", "/", "/", "h">>,
    <<"f", "t", "p", ":", "/", "/", "h">>,
    <<"h", "t", "t", "p", "d">>,
    <<"/", "a">>,
    <<"a">> }

\* options.params: the entries of the object, in order.  No params, {k: 'v'}
\* and {k: 'v', q: 'a b&'}.
Param(k, v) == [key |-> k, value |-> v]
ParamsArgs ==
  { << >>,
    <<Param(<<"k">>, <<"v">>)>>,
    <<Param(<<"k">>, <<"v">>), Param(<<"q">>, <<"a", " ", "b", "&">>)>> }

\* application/x-www-form-urlencoded: a space becomes '+', letters and digits
\* stay, other characters are percent-encoded.
EncodeChar(ch) ==
  CASE ch = " " -> <<"+">>
    [] ch = "&" -> <<"%", "2", "6">>
    [] ch = "=" -> <<"%", "3", "D">>
    [] ch = "/" -> <<"%", "2", "F">>
    [] ch = ":" -> <<"%", "3", "A">>
    [] ch = "?" -> <<"%", "3", "F">>
    [] ch = "+" -> <<"%", "2", "B">>
    [] ch = "%" -> <<"%", "2", "5">>
    [] OTHER -> <<ch>>

RECURSIVE EncodeURIComponent(_)
EncodeURIComponent(str) ==
  IF str = << >> THEN << >>
  ELSE EncodeChar(Head(str)) \o EncodeURIComponent(Tail(str))

\* new URLSearchParams(params).toString()
RECURSIVE URLSearchParamsToString(_)
URLSearchParamsToString(params) ==
  IF params = << >> THEN << >>
  ELSE EncodeURIComponent(Head(params).key) \o <<"=">>
         \o EncodeURIComponent(Head(params).value)
         \o (IF Tail(params) = << >> THEN << >>
             ELSE <<"&">> \o URLSearchParamsToString(Tail(params)))

\* HttpClient.buildUrl (HttpClient.js:160-165)
buildUrl(baseUrl, endpoint) ==
  IF StartsWith(endpoint, <<"h", "t", "t", "p">>)
  THEN endpoint
  ELSE baseUrl \o endpoint

\* HttpClient._buildUrl (part_000:15-18)
buildUrlWithParams(baseUrl, endpoint, params) ==
  baseUrl \o endpoint
    \o (IF URLSearchParamsToString(params) # << >>
        THEN <<"?">> \o URLSearchParamsToString(params)
        ELSE << >>)

----------------------------------------------------------------------------
(* HttpClient: headers.  A headers object is a function from header names  *)
(* to values; a headers option is absent or such an object.                *)

NoHeaders == [k \in {} |-> ""]
Header(k, v) == [n \in {k} |-> v]

Absent == [present |-> FALSE, map |-> NoHeaders]
Given(m) == [present |-> TRUE, map |-> m]

\* {...a, ...b}
Spread(a, b) ==
  [k \in (DOMAIN a) \cup (DOMAIN b) |-> IF k \in DOMAIN b THEN b[k] ELSE a[k]]

BuiltInHeaders == Header("Accept", "application/json")

\* defaultOptions.headers: absent, {} (example.weatherApi.js:2),
\* {'X-Key': 'k'} and {Accept: 'text/html'}
DefaultHeadersArgs ==
  {Absent, Given(NoHeaders), Given(Header("X-Key", "k")), Given(Header("Accept", "text/html"))}

\* options.headers of the call: absent, {'X-Trace': '1'}, {'X-Key': 'k2'} and
\* {Accept: 'text/plain'}
CallHeadersArgs ==
  {Absent, Given(Header("X-Trace", "1")), Given(Header("X-Key", "k2")),
   Given(Header("Accept", "text/plain"))}

\* The headers of finalOptions in _fetch (part_000:21-28): the merged headers,
\* which `...options` replaces by options.headers when the call has headers.
FetchHeaders(defaultHeaders, headers) ==
  IF headers.present
  THEN Given(headers.map)
  ELSE Given(Spread(Spread(BuiltInHeaders, defaultHeaders.map), headers.map))

\* The headers of requestOptions in request (HttpClient.js:118)
RequestHeaders(defaultHeaders, headers) ==
  IF headers.present THEN headers ELSE defaultHeaders

----------------------------------------------------------------------------
(* HttpClient: the response of fetch() and its decoding.                   *)

\* What fetch() settles with: a response [status, json, body] or a network
\* failure.  json: the content type is application/json.  body: a JSON
\* object, the JSON text null, or text that is not JSON.
Response(st, j, b) == [failed |-> FALSE, status |-> st, json |-> j, body |-> b]
NetworkFailure == [failed |-> TRUE, status |-> 0, json |-> FALSE, body |-> "invalid"]
NoResponse == [failed |-> FALSE, status |-> 0, json |-> FALSE, body |-> "none"]

ResponseStatuses == {200, 299, 300, 404, 500}
FetchOutcomes ==
  {Response(st, j, b) : st \in ResponseStatuses, j \in BOOLEAN,
                        b \in {"object", "null", "invalid"}}
    \cup {NetworkFailure}

\* Response.ok of the Fetch API
Ok(response) == 200 <= response.status /\ response.status <= 299

SyntaxError == [t |-> "SyntaxError", status |-> NoStatus, message |-> "Unexpected token"]
Text == [t |-> "string", a |-> 0]
\* {message: 'Invalid JSON response.'} (part_000:36)
InvalidJsonBody == [t |-> "object with message", a |-> 0]

\* response.json()
Json(response) ==
  CASE response.body = "object" -> Returns(Obj(1))
    [] response.body = "null" -> Returns(Null)
    [] OTHER -> Throws(SyntaxError)

\* HttpClient.request after fetch() has settled (HttpClient.js:120-147)
RequestOutcome(response) ==
  IF response.failed THEN Throws(NetworkError)
  ELSE IF ~Ok(response) THEN Throws(HttpFailure(response.status))
  ELSE IF response.json THEN Json(response)
  ELSE Returns(Text)

\* `data` of _fetch (part_000:32-37)
Data(response) ==
  IF Json(response).threw THEN InvalidJsonBody ELSE Json(response).value

\* data.message || 'HTTP error' (part_000:40)
DataMessage(data) ==
  IF data = InvalidJsonBody THEN "Invalid JSON response." ELSE "HTTP error"

\* HttpClient._fetch after fetch() has settled (part_000:30-46)
FetchOutcome(response) ==
  IF response.failed THEN Throws(NetworkError)
  ELSE IF ~Ok(response)
       THEN IF IsNullish(Data(response)) THEN Throws(TypeError)
            ELSE Throws([t |-> "Error", status |-> response.status,
                         message |-> DataMessage(Data(response))])
  ELSE Returns(Data(response))

----------------------------------------------------------------------------
(* HttpClient: the client and its call of get().                           *)

\* The two definitions of class HttpClient in the repository
Variants == {"HttpClient.js", "part_000"}

NoOutcome == Returns(Undefined)

HttpClient(v, b, d, e, p, h) ==
  [variant |-> v, baseUrl |-> b, defaultHeaders |-> d,
   endpoint |-> e, params |-> p, headers |-> h,
   stage |-> "idle", url |-> << >>, sent |-> Absent,
   response |-> NoResponse, outcome |-> NoOutcome]

\* No call of get() is made.
HttpUnused == [HttpClient("HttpClient.js", << >>, Absent, <<"a">>, << >>, Absent)
                 EXCEPT !.stage = "unused"]

----------------------------------------------------------------------------
(* Initial states. *)

\* The thunks: one that can settle with any outcome on any invocation, one
\* that always resolves, one that always resolves with an object, and one that
\* always throws.
AnyThunk == "any"
ResolvingThunk == "resolves"
ObjectThunk == "resolves with an object"
FailingThunk == "throws"
ScriptedThunk == "scripted"
Thunks == {AnyThunk, ResolvingThunk, ObjectThunk}

\* The outcomes an invocation of thunk f can settle with.
OutcomesOf(f) ==
  CASE f = ResolvingThunk -> {Resolved(v) : v \in Responses}
    [] f = ObjectThunk -> {Resolved(Obj(1)), Resolved(Obj(2))}
    [] f = FailingThunk -> {Rejected(e) : e \in Failures}
    [] OTHER -> Outcomes

\* The outcomes invocation number i of the thunk of call c can settle with.  A
\* scripted thunk settles with the i-th entry of its script, and with the last
\* entry from then on.
OutcomesAt(c, i) ==
  IF requestFn[c] = ScriptedThunk
  THEN {script[c][IF i < Len(script[c]) THEN i ELSE Len(script[c])]}
  ELSE OutcomesOf(requestFn[c])

NoScript == << >>

InitCalls ==
  /\ pc = [c \in Calls |-> "Idle"]
  /\ attempts = [c \in Calls |-> 0]
  /\ timer = [c \in Calls |-> NoTimer]
  /\ now = 0
  /\ result = [c \in Calls |-> Pending]
  /\ invocations = [c \in Calls |-> 0]
  /\ thunkFailures = [c \in Calls |-> 0]
  /\ waits = [c \in Calls |-> 0]
  /\ lastThunk = [c \in Calls |-> NotSettled]
  /\ startedAt = [c \in Calls |-> 0]
  /\ settledAt = [c \in Calls |-> 0]

\* One call of request(), with any options and any thunk.
Init ==
  /\ callSites = {1}
  /\ \E o \in Options : options = [c \in Calls |-> IF c = 1 THEN o ELSE NoOptions]
  /\ \E f \in Thunks : requestFn = [c \in Calls |-> IF c = 1 THEN f ELSE AnyThunk]
  /\ script = [c \in Calls |-> NoScript]
  /\ http = HttpUnused
  /\ InitCalls

\* Two calls with the same options, but for validateStatus: call 1 has a
\* validator that rejects every response and a thunk that always resolves,
\* call 2 has no validator and a thunk that always throws.
InitTwin ==
  /\ callSites = {1, 2}
  /\ \E o \in Options :
       /\ o.validateStatus = "rejectAll"
       /\ options = [c \in Calls |->
                       IF c = 1 THEN o ELSE [o EXCEPT !.validateStatus = "omitted"]]
  /\ \E f \in {ResolvingThunk, ObjectThunk} :
       requestFn = [c \in Calls |-> IF c = 1 THEN f ELSE FailingThunk]
  /\ script = [c \in Calls |-> NoScript]
  /\ http = HttpUnused
  /\ InitCalls

\* A script of MaxRetries + 1 invocations: the first k throw f, the others
\* resolve with {a: 1}.
FailThenResolve(k, f) ==
  [i \in 1..(MaxRetries + 1) |-> IF i <= k THEN Rejected(f) ELSE Resolved(Obj(1))]

PairScripts ==
  {FailThenResolve(k, f) : k \in 0..(MaxRetries + 1),
                           f \in {HttpFailure(404), HttpFailure(500)}}

PairOptions ==
  {[NoOptions EXCEPT !.retries = r, !.retryDelay = d] :
     r \in 0..MaxRetries, d \in {1, MaxDelay}}

\* Call 1 on its own, or calls 1 and 2 on the same ApiService, each with its
\* own options and its own scripted thunk.
InitPair ==
  /\ callSites \in {{1}, {1, 2}}
  /\ options \in [Calls -> PairOptions]
  /\ requestFn = [c \in Calls |-> ScriptedThunk]
  /\ script \in [Calls -> PairScripts]
  /\ 2 \notin callSites => (options[2] = options[1] /\ script[2] = script[1])
  /\ http = HttpUnused
  /\ InitCalls

\* Scripts of MaxRetries + 1 invocations over five outcomes: the bodies
\* {a: 1} and {status: 404}, the failures with status 500 and 404, and a
\* network failure.
ScriptOutcomes ==
  {Resolved(Obj(1)), Resolved(StatusObj(404)), Rejected(HttpFailure(500)),
   Rejected(HttpFailure(404)), Rejected(NetworkError)}

Scripts == [1..(MaxRetries + 1) -> ScriptOutcomes]

ScriptOptions == {o \in Options : o.retryDelay \in {Omitted, 1}}

\* One call, with any options and a scripted thunk.
InitScript ==
  /\ callSites = {1}
  /\ options \in [Calls -> ScriptOptions]
  /\ options[2] = options[1]
  /\ requestFn = [c \in Calls |-> ScriptedThunk]
  /\ script \in [Calls -> Scripts]
  /\ script[2] = script[1]
  /\ http = HttpUnused
  /\ InitCalls

\* The outcomes of the loop comparison: the bodies {a: 1} and null, a failure
\* with status 404 and the thrown value null.
LoopOutcomes ==
  {Resolved(Obj(1)), Resolved(Null), Rejected(HttpFailure(404)), Rejected(ThrownNull)}

LoopOptions ==
  {o \in Options : /\ o.retryDelay \in {1, MaxDelay}
                   /\ o.errorMessage = OmittedMessage
                   /\ o.validateStatus \in {"omitted", "aIs1"}}

\* Call 1 is made on ApiService.request; call 2, with the same options and a
\* thunk of the same outcomes, is made on the loop.
InitLoop ==
  /\ callSites = {1}
  /\ options \in [Calls -> LoopOptions]
  /\ options[2] = options[1]
  /\ requestFn = [c \in Calls |-> ScriptedThunk]
  /\ script \in [Calls -> [1..(MaxRetries + 1) -> LoopOutcomes]]
  /\ script[2] = script[1]
  /\ http = HttpUnused
  /\ InitCalls

\* One HttpClient, of either definition, and one call of get() on it; no call
\* of ApiService.request is made.
InitHttp ==
  /\ http \in {HttpClient(v, b, d, e, p, h) :
                 v \in Variants, b \in BaseUrls, d \in DefaultHeadersArgs,
                 e \in Endpoints, p \in ParamsArgs, h \in CallHeadersArgs}
  /\ callSites = {}
  /\ options = [c \in Calls |-> NoOptions]
  /\ requestFn = [c \in Calls |-> AnyThunk]
  /\ script = [c \in Calls |-> NoScript]
  /\ InitCalls

----------------------------------------------------------------------------
(* Actions. *)

\* tryRequest() up to `await requestFn()` (ApiService.js:15-17)
InvokeThunk(c) ==
  /\ invocations' = [invocations EXCEPT ![c] = @ + 1]
  /\ pc' = [pc EXCEPT ![c] = "Attempting"]

\* request(requestFn, options) is called (ApiService.js:6-13, 41)
Request(c) ==
  /\ c \in callSites
  /\ pc[c] = "Idle"
  /\ attempts' = [attempts EXCEPT ![c] = 0]
  /\ startedAt' = [startedAt EXCEPT ![c] = now]
  /\ InvokeThunk(c)
  /\ UNCHANGED <<script, http, callSites, options, requestFn, timer, now, result,
                 thunkFailures, waits, lastThunk, settledAt>>

\* `return transformResponse(res)` (ApiService.js:23)
Return(c, v) ==
  /\ pc' = [pc EXCEPT ![c] = "Succeeded"]
  /\ result' = [result EXCEPT ![c] = Fulfilled(v)]
  /\ settledAt' = [settledAt EXCEPT ![c] = now]
  /\ UNCHANGED <<attempts, timer, invocations, waits>>

\* Mutant: the retry branch calls tryRequest() at once, without a delay.
RetryWithoutWaiting(c) ==
  /\ attempts' = [attempts EXCEPT ![c] = @ + 1]
  /\ invocations' = [invocations EXCEPT ![c] = @ + 1]
  /\ pc' = [pc EXCEPT ![c] = "Attempting"]
  /\ UNCHANGED <<result, settledAt, timer, waits>>

\* Mutant: attempts is one counter of the ApiService, shared by its calls.
RetryWithSharedCounter(c) ==
  /\ attempts' = [d \in Calls |-> attempts[d] + 1]
  /\ timer' = [timer EXCEPT ![c] = SetTimeout(now, retryDelay(options[c]))]
  /\ pc' = [pc EXCEPT ![c] = "Waiting"]
  /\ UNCHANGED <<result, settledAt, invocations, waits>>

\* The retry branch (ApiService.js:25-27), up to the await of the delay
Retry(c) ==
  /\ attempts' = [attempts EXCEPT ![c] = @ + 1]
  /\ timer' = [timer EXCEPT ![c] = SetTimeout(now, retryDelay(options[c]))]
  /\ pc' = [pc EXCEPT ![c] = "Waiting"]
  /\ UNCHANGED <<result, settledAt, invocations, waits>>

\* Mutant: the enhanced Error is built from the failure of the attempt before
\* the last one, when there is one.
FailWithEarlierFailure(c, err) ==
  /\ pc' = [pc EXCEPT ![c] = "Failed"]
  /\ result' = [result EXCEPT ![c] =
       RejectedWith(FinalError(IF invocations[c] > 1 /\ ~lastThunk[c].ok
                               THEN lastThunk[c].err ELSE err,
                               errorMessage(options[c])))]
  /\ settledAt' = [settledAt EXCEPT ![c] = now]
  /\ UNCHANGED <<attempts, timer, invocations, waits>>

\* The final branch (ApiService.js:31-37)
Fail(c, err) ==
  /\ pc' = [pc EXCEPT ![c] = "Failed"]
  /\ result' = [result EXCEPT ![c] = RejectedWith(FinalError(err, errorMessage(options[c])))]
  /\ settledAt' = [settledAt EXCEPT ![c] = now]
  /\ UNCHANGED <<attempts, timer, invocations, waits>>

\* The catch block (ApiService.js:24-38)
CatchBlock(c, err) ==
  IF ShouldRetry(attempts[c], retries(options[c])) THEN Retry(c) ELSE Fail(c, err)

\* The promise of requestFn() settles with s; the try block resumes
Resume(c, s) ==
  /\ lastThunk' = [lastThunk EXCEPT ![c] = s]
  /\ thunkFailures' = [thunkFailures EXCEPT ![c] = IF s.ok THEN @ ELSE @ + 1]
  /\ IF TryBlock(options[c], s).threw
     THEN CatchBlock(c, TryBlock(options[c], s).err)
     ELSE Return(c, TryBlock(options[c], s).value)

ThunkSettles(c) ==
  /\ pc[c] = "Attempting"
  /\ \E s \in OutcomesAt(c, invocations[c]) : Resume(c, s)
  /\ UNCHANGED <<script, http, callSites, options, requestFn, now, startedAt>>

\* Time passes until the earliest pending timer is due
AdvanceTime ==
  /\ PendingTimers # {}
  /\ \A c \in PendingTimers : ~TimerDue(timer[c], now)
  /\ \E c \in PendingTimers :
       /\ \A d \in PendingTimers : timer[c] <= timer[d]
       /\ now' = timer[c]
  /\ UNCHANGED <<script, http, callSites, options, requestFn, pc, attempts, timer, result,
                 invocations, thunkFailures, waits, lastThunk, startedAt, settledAt>>

\* The timer of the retry branch fires: `return tryRequest()` (ApiService.js:27-28)
TimerFires(c) ==
  /\ pc[c] = "Waiting"
  /\ timer[c] # NoTimer
  /\ TimerDue(timer[c], now)
  /\ timer' = [timer EXCEPT ![c] = NoTimer]
  /\ waits' = [waits EXCEPT ![c] = @ + 1]
  /\ InvokeThunk(c)
  /\ UNCHANGED <<script, http, callSites, options, requestFn, attempts, now, result,
                 thunkFailures, lastThunk, startedAt, settledAt>>

\* get(endpoint, options) up to the await of fetch(): HttpClient.js:40-42 and
\* 115-122 (the URL is built from the endpoint alone), part_000:10-30.
HttpGet ==
  /\ http.stage = "idle"
  /\ http' = [http EXCEPT
       !.stage = "fetching",
       !.url = IF http.variant = "HttpClient.js"
               THEN buildUrl(http.baseUrl, http.endpoint)
               ELSE buildUrlWithParams(http.baseUrl, http.endpoint, http.params),
       !.sent = IF http.variant = "HttpClient.js"
                THEN RequestHeaders(http.defaultHeaders, http.headers)
                ELSE FetchHeaders(http.defaultHeaders, http.headers)]
  /\ UNCHANGED <<script, callSites, options, requestFn, pc, attempts, timer, now,
                 result, invocations, thunkFailures, waits, lastThunk,
                 startedAt, settledAt>>

\* fetch() settles and get() runs to its end: HttpClient.js:122-147,
\* part_000:30-46.
FetchSettles ==
  /\ http.stage = "fetching"
  /\ \E response \in FetchOutcomes :
       http' = [http EXCEPT
         !.stage = "settled",
         !.response = response,
         !.outcome = IF http.variant = "HttpClient.js"
                     THEN RequestOutcome(response)
                     ELSE FetchOutcome(response)]
  /\ UNCHANGED <<script, callSites, options, requestFn, pc, attempts, timer, now,
                 result, invocations, thunkFailures, waits, lastThunk,
                 startedAt, settledAt>>

HttpNext == HttpGet \/ FetchSettles

----------------------------------------------------------------------------
(* tryRequest as an explicit bounded loop with an attempt counter, run by   *)
(* call 2:                                                                 *)
(*   attempt = 0                                                           *)
(*   loop: invoke the thunk, validate and transform as the try block does; *)
(*         on a value, return it;                                          *)
(*         on a failure, if attempt < retries: attempt++, wait retryDelay, *)
(*         loop again; else fail as lines 31-37 do.                        *)
(* The body of an iteration and the final failure are those of the source; *)
(* the counter, its bound and the wait are the loop's own.                 *)

LoopCall == 2

LoopRequest ==
  /\ pc[LoopCall] = "Idle"
  /\ attempts' = [attempts EXCEPT ![LoopCall] = 0]
  /\ startedAt' = [startedAt EXCEPT ![LoopCall] = now]
  /\ invocations' = [invocations EXCEPT ![LoopCall] = @ + 1]
  /\ pc' = [pc EXCEPT ![LoopCall] = "LoopAttempting"]
  /\ UNCHANGED <<script, http, callSites, options, requestFn, timer, now, result,
                 thunkFailures, waits, lastThunk, settledAt>>

LoopSettles ==
  /\ pc[LoopCall] = "LoopAttempting"
  /\ \E s \in OutcomesAt(LoopCall, invocations[LoopCall]) :
       LET o == options[LoopCall]
           body == TryBlock(o, s)
       IN /\ lastThunk' = [lastThunk EXCEPT ![LoopCall] = s]
          /\ thunkFailures' = [thunkFailures EXCEPT ![LoopCall] = IF s.ok THEN @ ELSE @ + 1]
          /\ IF ~body.threw
             THEN /\ pc' = [pc EXCEPT ![LoopCall] = "Succeeded"]
                  /\ result' = [result EXCEPT ![LoopCall] = Fulfilled(body.value)]
                  /\ settledAt' = [settledAt EXCEPT ![LoopCall] = now]
                  /\ UNCHANGED <<attempts, timer>>
             ELSE IF attempts[LoopCall] < retries(o)
             THEN /\ attempts' = [attempts EXCEPT ![LoopCall] = @ + 1]
                  /\ timer' = [timer EXCEPT ![LoopCall] = now + retryDelay(o)]
                  /\ pc' = [pc EXCEPT ![LoopCall] = "LoopWaiting"]
                  /\ UNCHANGED <<result, settledAt>>
             ELSE /\ pc' = [pc EXCEPT ![LoopCall] = "Failed"]
                  /\ result' = [result EXCEPT ![LoopCall] =
                       RejectedWith(FinalError(body.err, errorMessage(o)))]
                  /\ settledAt' = [settledAt EXCEPT ![LoopCall] = now]
                  /\ UNCHANGED <<attempts, timer>>
  /\ UNCHANGED <<script, http, callSites, options, requestFn, now, startedAt,
                 invocations, waits>>

LoopTimerFires ==
  /\ pc[LoopCall] = "LoopWaiting"
  /\ timer[LoopCall] # NoTimer
  /\ now >= timer[LoopCall]
  /\ timer' = [timer EXCEPT ![LoopCall] = NoTimer]
  /\ waits' = [waits EXCEPT ![LoopCall] = @ + 1]
  /\ invocations' = [invocations EXCEPT ![LoopCall] = @ + 1]
  /\ pc' = [pc EXCEPT ![LoopCall] = "LoopAttempting"]
  /\ UNCHANGED <<script, http, callSites, options, requestFn, attempts, now, result,
                 thunkFailures, lastThunk, startedAt, settledAt>>

LoopNext == LoopRequest \/ LoopSettles \/ LoopTimerFires

Next ==
  \/ \E c \in Calls : Request(c)
  \/ \E c \in Calls : ThunkSettles(c)
  \/ AdvanceTime
  \/ \E c \in Calls : TimerFires(c)

Spec == Init /\ [][Next]_vars

TwinSpec == InitTwin /\ [][Next]_vars

PairSpec == InitPair /\ [][Next]_vars

ScriptSpec == InitScript /\ [][Next]_vars

LoopSpec == InitLoop /\ [][Next \/ LoopNext]_vars

HttpSpec == InitHttp /\ [][HttpNext]_vars

----------------------------------------------------------------------------
TypeOK ==
  /\ pc \in [Calls -> {"Idle", "Attempting", "Waiting", "Succeeded", "Failed"}]
  /\ attempts \in [Calls -> Nat]
  /\ now \in Nat

----------------------------------------------------------------------------
(* C1 *)

\* C1: when the thunk fails on every invocation, request() invokes it exactly
\* retries + 1 times and then fails: while fewer invocations have failed the
\* call is waiting for the next one, after invocation retries + 1 it has
\* failed, and it never succeeds.  An omitted retries option counts as 1, which
\* gives exactly 2 invocations.
C1_PerpetualFailureInvokesNPlus1 ==
  \A c \in Calls :
    (invocations[c] > 0 /\ thunkFailures[c] = invocations[c]) =>
      /\ pc[c] \in {"Waiting", "Failed"}
      /\ pc[c] = "Waiting" => invocations[c] <= retries(options[c])
      /\ pc[c] = "Failed" => /\ invocations[c] = retries(options[c]) + 1
                             /\ result[c].state = "rejected"
      /\ (pc[c] = "Failed" /\ options[c].retries = Omitted) => invocations[c] = 2
      /\ (pc[c] = "Failed" /\ options[c].retries # Omitted) =>
            invocations[c] = options[c].retries + 1

C1_Witness ==
  /\ pc[1] = "Failed"
  /\ options[1].retries = 2
  /\ thunkFailures[1] = 3
  /\ invocations[1] = 3

----------------------------------------------------------------------------
(* C2 *)

\* C2: when the thunk fails on its first k invocations and resolves on
\* invocation k + 1 (k <= retries) with a result that passes validateStatus (or
\* there is none) and on which transformResponse returns, request() has
\* succeeded after these k + 1 invocations and its value is transformResponse
\* of that result: the result itself for the default transform, its field a
\* for r => r.a.
C2_FailKThenSucceed ==
  \A c \in Calls :
    ( /\ lastThunk[c].ok
      /\ invocations[c] = thunkFailures[c] + 1
      /\ validateStatus(options[c].validateStatus, lastThunk[c].res) = "true"
      /\ ~(options[c].transformResponse = "getA" /\ IsNullish(lastThunk[c].res)) ) =>
      /\ thunkFailures[c] <= retries(options[c])
      /\ pc[c] = "Succeeded"
      /\ result[c].state = "fulfilled"
      /\ options[c].transformResponse = "omitted" => result[c].value = lastThunk[c].res
      /\ options[c].transformResponse = "getA" =>
            result[c].value = [t |-> "number", a |-> lastThunk[c].res.a]

C2_Witness ==
  /\ pc[1] = "Succeeded"
  /\ thunkFailures[1] = 2
  /\ invocations[1] = 3
  /\ options[1].transformResponse = "getA"
  /\ result[1].value = Num(1)

----------------------------------------------------------------------------
(* C3 *)

\* C3: the message of an enhanced Error is chosen by the status of the failure
\* it wraps: the table entry for 400, 401, 403, 404, 429 and 500; the caller's
\* errorMessage ('API request failed.' when omitted) for any other status and
\* for a failure without a status.
C3_MessageByStatus ==
  \A c \in Calls :
    (result[c].state = "rejected" /\ result[c].reason.hasOriginalError) =>
      LET status == result[c].reason.originalError.status
          message == result[c].reason.message
          fallback == IF options[c].errorMessage = OmittedMessage
                      THEN "API request failed." ELSE options[c].errorMessage
      IN /\ status = 400 => message = "Bad request."
         /\ status = 401 => message = "Authentication required."
         /\ status = 403 => message = "Access denied."
         /\ status = 404 => message = "Data not found."
         /\ status = 429 => message = "Too many requests. Try again later."
         /\ status = 500 => message = "A server error occurred."
         /\ status \notin {400, 401, 403, 404, 429, 500} => message = fallback

C3_Witness ==
  /\ pc[1] = "Failed"
  /\ result[1].reason.hasOriginalError
  /\ result[1].reason.originalError = HttpFailure(404)
  /\ result[1].reason.message = "Data not found."
  /\ attempts[1] = retries(options[1])

----------------------------------------------------------------------------
(* C4 *)

\* C4: with retries = 0 no delay is ever scheduled, and a thunk that fails on
\* its first invocation gives exactly 1 invocation and, at the instant of that
\* failure, a rejection with the enhanced Error that wraps the thunk's failure.
C4_ZeroRetriesImmediateEnhancedFailure ==
  \A c \in Calls :
    options[c].retries = 0 =>
      /\ pc[c] # "Waiting"
      /\ timer[c] = NoTimer
      /\ waits[c] = 0
      /\ thunkFailures[c] > 0 =>
           /\ pc[c] = "Failed"
           /\ invocations[c] = 1
           /\ settledAt[c] = startedAt[c]
           /\ result[c].state = "rejected"
           /\ result[c].reason.t = "Error"
           /\ result[c].reason.hasOriginalError
           /\ result[c].reason.originalError = lastThunk[c].err

----------------------------------------------------------------------------
(* C5 *)

\* C5: without a validator, a thunk that always resolves (with results on
\* which transformResponse returns) is invoked at most once, and once that
\* invocation has settled request() has succeeded with transformResponse of its
\* result, with no delay scheduled or waited for and no time elapsed, whatever
\* retries and retryDelay are.
C5_SuccessOnFirstAttempt ==
  \A c \in Calls :
    ( /\ options[c].validateStatus = "omitted"
      /\ \A s \in OutcomesOf(requestFn[c]) :
            s.ok /\ ~(options[c].transformResponse = "getA" /\ IsNullish(s.res)) ) =>
      /\ invocations[c] <= 1
      /\ waits[c] = 0
      /\ pc[c] \in {"Idle", "Attempting", "Succeeded"}
      /\ lastThunk[c].ok =>
           /\ pc[c] = "Succeeded"
           /\ invocations[c] = 1
           /\ attempts[c] = 0
           /\ timer[c] = NoTimer
           /\ settledAt[c] = startedAt[c]
           /\ result[c].state = "fulfilled"
           /\ options[c].transformResponse = "omitted" =>
                 result[c].value = lastThunk[c].res
           /\ (options[c].transformResponse = "getA"
                 /\ lastThunk[c].res = [t |-> "object", a |-> 1]) =>
                 result[c].value = [t |-> "number", a |-> 1]
           /\ (options[c].transformResponse = "getA"
                 /\ lastThunk[c].res = [t |-> "object", a |-> 2]) =>
                 result[c].value = [t |-> "number", a |-> 2]

C5_Witness ==
  /\ pc[1] = "Succeeded"
  /\ options[1].validateStatus = "omitted"
  /\ options[1].transformResponse = "getA"
  /\ options[1].retries = 2
  /\ options[1].retryDelay = 2
  /\ requestFn[1] = ObjectThunk
  /\ lastThunk[1] = Resolved(Obj(1))
  /\ result[1] = Fulfilled(Num(1))
  /\ invocations[1] = 1

----------------------------------------------------------------------------
(* C7 *)

\* C7: a call of request() that has ended has either fulfilled with one value
\* or rejected with an enhanced Error, which has a message and carries the
\* value that reached the catch block last as originalError; this for every
\* value the thunk fails with, null and undefined included.
C7_ResultOrEnhancedFailure ==
  \A c \in Calls :
    /\ pc[c] \in {"Idle", "Attempting", "Waiting"} <=> result[c].state = "pending"
    /\ pc[c] = "Succeeded" <=> result[c].state = "fulfilled"
    /\ pc[c] = "Failed" <=> result[c].state = "rejected"
    /\ pc[c] = "Failed" =>
         /\ result[c].reason.t = "Error"
         /\ result[c].reason.message # ""
         /\ result[c].reason.hasOriginalError
         /\ result[c].reason.originalError = TryBlock(options[c], lastThunk[c]).err

----------------------------------------------------------------------------
(* C8 *)

\* C8: every attempt after the first starts only when the delay scheduled
\* before it has elapsed, so attempt number attempts + 1 starts no earlier than
\* attempts * retryDelay after the call; when the thunk fails on every
\* invocation, exactly retries waits have been performed and at least
\* retries * retryDelay has elapsed when request() fails.
C8_ElapsedAtLeastNTimesD ==
  \A c \in Calls :
    LET N == IF options[c].retries = Omitted THEN 1 ELSE options[c].retries
        D == IF options[c].retryDelay = Omitted THEN 1000 ELSE options[c].retryDelay
    IN /\ pc[c] = "Attempting" =>
            /\ waits[c] = attempts[c]
            /\ timer[c] = NoTimer
            /\ now - startedAt[c] >= attempts[c] * D
       /\ pc[c] = "Waiting" =>
            /\ waits[c] = attempts[c] - 1
            /\ timer[c] - startedAt[c] >= attempts[c] * D
       /\ (pc[c] = "Failed" /\ thunkFailures[c] = invocations[c]) =>
            /\ waits[c] = N
            /\ settledAt[c] - startedAt[c] >= N * D

C8_Witness ==
  /\ pc[1] = "Failed"
  /\ thunkFailures[1] = invocations[1]
  /\ options[1].retries = 2
  /\ options[1].retryDelay = 2
  /\ waits[1] = 2
  /\ settledAt[1] - startedAt[1] = 4

----------------------------------------------------------------------------
(* C9 *)

\* C9: a call moves only along Attempting -> Succeeded, Attempting -> Waiting
\* (a failure with attempts < retries), Attempting -> Failed (a failure with
\* attempts >= retries) and Waiting -> Attempting, and enters Attempting when
\* request() is called; the thunk is invoked only on entering Attempting, a
\* wait ends only on leaving Waiting, and in Succeeded and Failed nothing of
\* the call changes any more.
C9_StateMachine ==
  [][\A c \in Calls :
       /\ pc'[c] # pc[c] =>
            <<pc[c], pc'[c]>> \in {<<"Idle", "Attempting">>,
                                   <<"Attempting", "Succeeded">>,
                                   <<"Attempting", "Waiting">>,
                                   <<"Attempting", "Failed">>,
                                   <<"Waiting", "Attempting">>}
       /\ (pc[c] = "Attempting" /\ pc'[c] = "Waiting") =>
            attempts[c] < retries(options[c])
       /\ (pc[c] = "Attempting" /\ pc'[c] = "Failed") =>
            attempts[c] >= retries(options[c])
       /\ invocations'[c] # invocations[c] =>
            /\ invocations'[c] = invocations[c] + 1
            /\ pc[c] \in {"Idle", "Waiting"}
            /\ pc'[c] = "Attempting"
       /\ waits'[c] # waits[c] => (pc[c] = "Waiting" /\ pc'[c] = "Attempting")
       /\ pc[c] \in {"Succeeded", "Failed"} =>
            /\ pc'[c] = pc[c]
            /\ invocations'[c] = invocations[c]
            /\ waits'[c] = waits[c]
            /\ attempts'[c] = attempts[c]
            /\ timer'[c] = timer[c]
            /\ result'[c] = result[c]
    ]_vars

C9_Witness ==
  /\ pc[1] = "Failed"
  /\ waits[1] = 2
  /\ invocations[1] = 3
  /\ attempts[1] = 2

----------------------------------------------------------------------------
(* C10 *)

\* A thunk's promise settles, a timer that is due fires, and time passes.
Fairness ==
  /\ \A c \in Calls : WF_vars(ThunkSettles(c))
  /\ \A c \in Calls : WF_vars(TimerFires(c))
  /\ WF_vars(AdvanceTime)

LiveSpec == Init /\ [][Next]_vars /\ Fairness

\* C10: every call of request() that has started eventually succeeds or fails.
C10_EventuallySettles ==
  \A c \in Calls :
    (pc[c] \in {"Attempting", "Waiting"}) ~> (pc[c] \in {"Succeeded", "Failed"})

C10_Witness ==
  /\ pc[1] = "Failed"
  /\ attempts[1] = MaxRetries
  /\ waits[1] = MaxRetries
  /\ now >= MaxRetries * MaxDelay

----------------------------------------------------------------------------
(* C6 *)

\* Call 1 rejects every response of a thunk that always resolves; call 2 has
\* the same options without the validator and a thunk that always throws.
TwinCalls ==
  /\ options[1].validateStatus = "rejectAll"
  /\ options[2] = [options[1] EXCEPT !.validateStatus = "omitted"]
  /\ \A s \in OutcomesOf(requestFn[1]) : s.ok
  /\ \A s \in OutcomesOf(requestFn[2]) : ~s.ok
  /\ pc[1] \in {"Succeeded", "Failed"}
  /\ pc[2] \in {"Succeeded", "Failed"}

\* C6 (as claimed): the two runs are identical: the same number of thunk
\* invocations and of waits, and both end with an enhanced Error that has the
\* same message and an originalError.  Stated for a thunk whose last failure is
\* an object or Error, where request() does build the enhanced Error.
C6_ValidatorRejectionSameAsThunkFailure ==
  (TwinCalls /\ lastThunk[2].err.t \notin {"null", "undefined"}) =>
    /\ pc[1] = "Failed" /\ pc[2] = "Failed"
    /\ invocations[1] = invocations[2]
    /\ waits[1] = waits[2]
    /\ result[1].reason.t = "Error" /\ result[2].reason.t = "Error"
    /\ result[1].reason.hasOriginalError /\ result[2].reason.hasOriginalError
    /\ result[1].reason.message = result[2].reason.message

\* C6 (amended): the two runs have the same number of thunk invocations and of
\* waits and both end in failure.  The validator's run ends with the enhanced
\* Error whose message is errorMessage and whose originalError is the Error
\* 'Custom validation failed.'.  The failing thunk's run ends with an enhanced
\* Error of the same message when the thunk's last failure is an object or
\* Error whose status is absent or has no entry in the table.
C6_SameRetriesSameMessageUnlessMapped ==
  TwinCalls =>
    /\ pc[1] = "Failed" /\ pc[2] = "Failed"
    /\ invocations[1] = invocations[2]
    /\ waits[1] = waits[2]
    /\ attempts[1] = attempts[2]
    /\ result[1].reason.t = "Error"
    /\ result[1].reason.hasOriginalError
    /\ result[1].reason.originalError.message = "Custom validation failed."
    /\ result[1].reason.message =
         (IF options[1].errorMessage = OmittedMessage
          THEN "API request failed." ELSE options[1].errorMessage)
    /\ ( /\ lastThunk[2].err.t \notin {"null", "undefined"}
         /\ lastThunk[2].err.status \notin {400, 401, 403, 404, 429, 500} ) =>
           /\ result[2].reason.t = "Error"
           /\ result[2].reason.hasOriginalError
           /\ result[2].reason.originalError = lastThunk[2].err
           /\ result[2].reason.message = result[1].reason.message

C6_Witness ==
  /\ TwinCalls
  /\ retries(options[1]) = 2
  /\ invocations[1] = 3
  /\ invocations[2] = 3
  /\ waits[2] = 2
  /\ lastThunk[2].err = HttpFailure(418)
  /\ result[2].reason.message = result[1].reason.message

----------------------------------------------------------------------------
(* C11 *)

\* C11: a call that has ended, whether it ran on its own or interleaved with
\* another call of the same ApiService, has made the invocations and waits and
\* has the result that tryRequest gives for its own options and thunk alone;
\* the other call's options and failures play no part.
C11_CallsAreIndependent ==
  \A c \in callSites :
    (requestFn[c] = ScriptedThunk /\ pc[c] \in {"Succeeded", "Failed"}) =>
      /\ invocations[c] = tryRequest(options[c], script[c], 0, 1).invocations
      /\ attempts[c] = tryRequest(options[c], script[c], 0, 1).attempts
      /\ waits[c] = tryRequest(options[c], script[c], 0, 1).attempts
      /\ result[c] = tryRequest(options[c], script[c], 0, 1).result

\* Call 2 starts while call 1 waits for its second retry and ends first; the
\* calls differ in retries, in retryDelay and in outcome.
C11_Witness ==
  /\ callSites = {1, 2}
  /\ pc[1] = "Failed" /\ pc[2] = "Succeeded"
  /\ options[1].retries = 2 /\ options[2].retries = 1
  /\ options[1].retryDelay # options[2].retryDelay
  /\ invocations[1] = 3 /\ invocations[2] = 2
  /\ startedAt[2] > startedAt[1]
  /\ settledAt[2] < settledAt[1]

----------------------------------------------------------------------------
(* C12 *)

\* C12: the headers of the request given to fetch() are the key-wise merge of
\* {Accept: application/json}, the client's default headers and the call's
\* headers, a later layer winning on a common key only.
C12_HeadersAreMergedKeyWise ==
  http.stage \in {"fetching", "settled"} =>
    http.sent = Given(Spread(Spread(BuiltInHeaders, http.defaultHeaders.map),
                             http.headers.map))

----------------------------------------------------------------------------
(* C13 *)

\* C13: an endpoint with a scheme prefix (letters, then ://) is the request
\* URL as it stands; any other endpoint gives baseUrl + endpoint, followed by
\* ? and the URL-encoded params when params are given.
C13_UrlResolution ==
  LET e == http.endpoint
      Letters == {"f", "h", "p", "s", "t"}
      HasSchemePrefix ==
        \E i \in 2..Len(e) :
          /\ i + 2 <= Len(e)
          /\ SubSeq(e, i, i + 2) = <<":", "/", "/">>
          /\ \A j \in 1..(i - 1) : e[j] \in Letters
      Query == IF http.params = << >> THEN << >>
               ELSE <<"?">> \o URLSearchParamsToString(http.params)
  IN http.stage \in {"fetching", "settled"} =>
       http.url = IF HasSchemePrefix THEN e ELSE http.baseUrl \o e \o Query

----------------------------------------------------------------------------
(* C14 *)

\* C14: get() throws exactly when fetch() fails or the response's status is
\* outside 200..299; for a response outside 200..299 what is thrown has the
\* response's status in its status field; for a response in 200..299 get()
\* returns.
C14_FailsIffNon2xxOrFetchFails ==
  http.stage = "settled" =>
    /\ http.outcome.threw <=> (http.response.failed \/ ~Ok(http.response))
    /\ (~http.response.failed /\ ~Ok(http.response)) =>
         (http.outcome.threw /\ http.outcome.err.status = http.response.status)
    /\ (~http.response.failed /\ Ok(http.response)) => ~http.outcome.threw

----------------------------------------------------------------------------
(* C15 *)

\* C15: when an invocation of the thunk resolves and its result passes
\* validateStatus (or there is none), the call ends Succeeded at that step:
\* attempts is not incremented, no timer is set and the thunk is not invoked
\* again, whatever transformResponse and validateStatus are.
C15_SuccessEndsTheCall ==
  [][\A c \in Calls :
       ( /\ pc[c] = "Attempting"
         /\ pc'[c] # "Attempting"
         /\ lastThunk'[c].ok
         /\ \/ options[c].validateStatus = "omitted"
            \/ validateStatus(options[c].validateStatus, lastThunk'[c].res) = "true" )
       => /\ pc'[c] = "Succeeded"
          /\ attempts'[c] = attempts[c]
          /\ timer'[c] = NoTimer
          /\ invocations'[c] = invocations[c]]_vars

----------------------------------------------------------------------------
(* C16 *)

\* C16: the enhanced Error of a failed call wraps what the last invocation
\* of the thunk ended with (its failure, or the validation Error for its
\* response) and has the message for that failure's status, whatever the
\* earlier invocations failed with; the result of the call is set once, when
\* the call is pending, and is the enhanced Error itself.
C16_BuiltFromLastAttemptOnce ==
  /\ [](\A c \in callSites :
          (pc[c] = "Failed" /\ result[c].reason.hasOriginalError) =>
            LET o == options[c]
                last == TryBlock(o, script[c][invocations[c]])
            IN /\ last.threw
               /\ result[c] = RejectedWith(EnhancedError(
                                ErrorMessageFor(last.err, errorMessage(o)), last.err))
               /\ lastThunk[c] = script[c][invocations[c]])
  /\ [][\A c \in callSites :
          result'[c] # result[c] => (result[c] = Pending /\ pc'[c] \in {"Succeeded", "Failed"})]_vars

\* 500 on the first attempt, 404 on the second and last: the message is the
\* one for 404 and the cause is the 404 failure.
C16_Witness ==
  /\ pc[1] = "Failed"
  /\ invocations[1] = 2
  /\ script[1][1] = Rejected(HttpFailure(500))
  /\ script[1][2] = Rejected(HttpFailure(404))
  /\ result[1].reason.originalError = HttpFailure(404)
  /\ result[1].reason.message = "Data not found."

----------------------------------------------------------------------------
(* C17 *)

\* C17 as stated: in every reachable state of a call, 0 <= attempts <=
\* retries, the completed waits are as many as attempts, and the invocations
\* of the thunk are at most attempts + 1.
C17_WaitsEqualAttempts ==
  \A c \in Calls :
    /\ 0 <= attempts[c] /\ attempts[c] <= retries(options[c])
    /\ waits[c] = attempts[c]
    /\ invocations[c] <= attempts[c] + 1

\* C17, amended: 0 <= attempts <= retries and invocations <= attempts + 1 in
\* every reachable state; the completed waits are as many as attempts except
\* while the call waits, when attempts, incremented before the wait, is one
\* more; a call waits only after an invocation that failed and before the
\* next one, and a call that has ended has no timer.
C17_WaitsEqualAttemptsUnlessWaiting ==
  \A c \in Calls :
    /\ 0 <= attempts[c] /\ attempts[c] <= retries(options[c])
    /\ invocations[c] <= attempts[c] + 1
    /\ pc[c] = "Idle" => (attempts[c] = 0 /\ waits[c] = 0 /\ invocations[c] = 0)
    /\ pc[c] = "Waiting" =>
         /\ waits[c] = attempts[c] - 1
         /\ invocations[c] = attempts[c]
         /\ invocations[c] >= 1
         /\ timer[c] # NoTimer
    /\ pc[c] \in {"Attempting", "Succeeded", "Failed"} =>
         /\ waits[c] = attempts[c]
         /\ invocations[c] = attempts[c] + 1
         /\ timer[c] = NoTimer

\* The second wait of a call: two invocations made, one wait completed.
C17_Witness ==
  /\ pc[1] = "Waiting"
  /\ attempts[1] = 2
  /\ waits[1] = 1
  /\ invocations[1] = 2

----------------------------------------------------------------------------
(* C18 *)

\* C18: when the last invocation resolves and validateStatus returns false
\* for its response, the call fails with an enhanced Error whose message is
\* the errorMessage option (or its default), also when the response is
\* {status: 404}, and whose originalError is the Error 'Custom validation
\* failed.', which has no status and nothing of the response.
C18_ValidationFailureUsesFallback ==
  \A c \in callSites :
    LET o == options[c]
        last == script[c][invocations[c]]
    IN ( /\ pc[c] = "Failed"
         /\ last.ok
         /\ o.validateStatus # "omitted"
         /\ validateStatus(o.validateStatus, last.res) = "false" ) =>
       /\ result[c].state = "rejected"
       /\ result[c].reason.message =
            (IF o.errorMessage = OmittedMessage THEN "API request failed."
             ELSE o.errorMessage)
       /\ result[c].reason.hasOriginalError
       /\ result[c].reason.originalError =
            [t |-> "Error", status |-> NoStatus, message |-> "Custom validation failed."]

\* The thunk fails with 404, then resolves with {status: 404}, which the
\* validator rejects: the message is the caller's, not the one for 404.
C18_Witness ==
  /\ pc[1] = "Failed"
  /\ invocations[1] = 2
  /\ script[1][1] = Rejected(HttpFailure(404))
  /\ script[1][2] = Resolved(StatusObj(404))
  /\ options[1].validateStatus = "rejectAll"
  /\ options[1].errorMessage = WeatherErrorMessage
  /\ result[1].reason.message = WeatherErrorMessage

----------------------------------------------------------------------------
(* C19 *)

\* C19: for the same options and the same sequence of thunk outcomes, the
\* call made on the recursive tryRequest and the call made on the loop end
\* in the same state, after the same number of invocations and of waits,
\* each wait of retryDelay, and with the same value or the same error.
C19_RecursionEquivalentToLoop ==
  /\ []((pc[1] \in {"Succeeded", "Failed"} /\ pc[LoopCall] \in {"Succeeded", "Failed"}) =>
          /\ pc[1] = pc[LoopCall]
          /\ invocations[1] = invocations[LoopCall]
          /\ attempts[1] = attempts[LoopCall]
          /\ waits[1] = waits[LoopCall]
          /\ result[1] = result[LoopCall])
  /\ [][\A c \in {1, LoopCall} :
          (timer'[c] # timer[c] /\ timer'[c] # NoTimer) =>
            timer'[c] - now = retryDelay(options[1])]_vars

\* Both calls fail after two waits with the enhanced Error of the last 404.
C19_Witness ==
  /\ pc[1] = "Failed" /\ pc[LoopCall] = "Failed"
  /\ options[1].retries = 2
  /\ invocations[1] = 3 /\ invocations[LoopCall] = 3
  /\ waits[1] = 2 /\ waits[LoopCall] = 2
  /\ result[LoopCall].reason.originalError = HttpFailure(404)
  /\ result[1] = result[LoopCall]

====
